---------------------------- MODULE Spec2Model ----------------------------
(***************************************************************************)
(* SD/MMC block-device driver over SPI (src/User/diskio.c).                *)
(*                                                                         *)
(* The driver is one sequential caller (pc, stack, locals L) plus the      *)
(* 1 kHz handler disk_timerproc, which runs as an interrupt: one atomic    *)
(* step that may fall between any two steps of the caller.  The caller is  *)
(* cut into steps at every read or write of the fields the handler shares  *)
(* with it (Stat, Timer1, Timer2).  The card is the environment: every     *)
(* byte it returns is drawn from the byte classes the code tells apart.    *)
(***************************************************************************)
EXTENDS Integers, Sequences, FiniteSets, TLC

VARIABLES
    Stat,        \* diskio.c:27  disk status flags (set of STA_* flags)
    Timer1,      \* diskio.c:30  countdown timer (data token / negotiation)
    Timer2,      \* diskio.c:30  countdown timer (wait_ready)
    CardType,    \* diskio.c:33  detected card type (set of CT_* flags)
    CS,          \* chip-select line level driven by CS_HIGH / CS_LOW
    pc,          \* position of the caller
    stack,       \* return frames of the caller
    op,          \* public operation in progress ("none" when idle)
    L,           \* parameters and locals of the functions in progress
    rv,          \* value returned by the last internal function
    ret,         \* value the public operation returns to its caller
    bus,         \* observation: bus events of the read/write/ioctl call
    xchgd,       \* observation: a byte was exchanged during this call
    csDriven,    \* observation: the select line was driven during this call
    removed,     \* observation: a tick saw card-detect absent, no success since
    callRemoved, \* observation: value of removed when this call was made
    ticks        \* observation: handler invocations since Timer2 was armed

vars == <<Stat, Timer1, Timer2, CardType, CS, pc, stack, op, L, rv, ret,
          bus, xchgd, csDriven, removed, callRemoved, ticks>>

-----------------------------------------------------------------------------
(* Bounds of the model *)

\* largest sector count a read or write is called with
MaxCount == 2
\* largest start sector a read or write is called with
MaxSector == 0
\* handler invocations that one Tick step of Spec stands for (back to back)
TickBurst == 500
\* saturation of the observation counter ticks
MaxTicks == 502

-----------------------------------------------------------------------------
(* Program constants *)

STA_NOINIT == "STA_NOINIT"
STA_NODISK == "STA_NODISK"
STA_PROTECT == "STA_PROTECT"

CT_MMC == "CT_MMC"
CT_SD1 == "CT_SD1"
CT_SD2 == "CT_SD2"
CT_BLOCK == "CT_BLOCK"
CT_SDC == {CT_SD1, CT_SD2}

RES_OK == "RES_OK"
RES_ERROR == "RES_ERROR"
RES_WRPRT == "RES_WRPRT"
RES_NOTRDY == "RES_NOTRDY"
RES_PARERR == "RES_PARERR"

CS_HIGH == "high"
CS_LOW == "low"

\* command indices; bit 0x80 marks an application command (diskio.c:160)
ACMD_FLAG == 128
CMD0 == 0
CMD1 == 1
ACMD41 == 169
CMD8 == 8
CMD9 == 9
CMD10 == 10
CMD12 == 12
ACMD13 == 141
CMD16 == 16
CMD17 == 17
CMD18 == 18
ACMD23 == 151
CMD24 == 24
CMD25 == 25
CMD55 == 55
CMD58 == 58

\* sensed level of the write-protect and card-detect lines in this build
MMC_WP == 0
MMC_CD == 1

\* timer budgets, in ticks
WAIT_READY_TICKS == 500
DATA_TOKEN_TICKS == 100
INIT_TICKS == 1000
\* response poll attempts of send_cmd
RESP_ATTEMPTS == 10

\* data tokens
TOKEN_SINGLE == 254
TOKEN_MULTI == 252
TOKEN_STOP == 253

\* sect *= 512 wraps in a DWORD: 2^32 / 512 sectors
SECTOR_WRAP == 8388608

-----------------------------------------------------------------------------
(* Inputs of the public operations and bytes the card may return *)

Drives == {0, 1}
Counts == 0 .. MaxCount
Sectors == 0 .. MaxSector
IoctlCodes == {"CTRL_SYNC", "GET_SECTOR_COUNT", "GET_BLOCK_SIZE", "MMC_GET_TYPE",
               "MMC_GET_CSD", "MMC_GET_CID", "MMC_GET_OCR", "MMC_GET_SDSTAT",
               "GET_SECTOR_SIZE"}
\* levels the two sensed lines can take (this build wires MMC_WP, MMC_CD)
Levels == {0, 1}

\* answer to a filler byte while waiting for ready: 0xFF ready, 0x00 busy
ReadyBytes == {255, 0}
\* R1 response bytes: ready, idle, idle+illegal command, no response
R1Bytes == {0, 1, 5, 255}
\* bytes seen while waiting for a data token: none yet, start token, error token
TokenBytes == {255, 254, 1}
\* data response bytes: accepted, accepted with upper bits set, CRC error,
\* a byte whose low four bits alone look accepted, none
DataRespBytes == {5, 229, 11, 21, 255}
\* trailing four bytes of the R7 response to CMD8
R7Tails == {<<0, 0, 1, 170>>, <<0, 0, 0, 170>>, <<0, 0, 1, 0>>}
\* four bytes of the OCR following CMD58: with and without the CCS bit
OCRs == {<<192, 255, 128, 0>>, <<128, 255, 128, 0>>}

-----------------------------------------------------------------------------
(* Locals *)

\* what one run of disk_initialize got from the card: the value of each
\* send_cmd (NotSent while not issued; for the poll loop the value that
\* ended it), the four bytes after CMD8, and whether
\* Timer1 was nonzero when tested after the poll loop
NotSent == 0 - 1

NoNeg == [cmd0 |-> NotSent, cmd8 |-> NotSent, r7 |-> <<0, 0, 0, 0>>, probe |-> NotSent,
          poll |-> NotSent, t1 |-> FALSE, fin |-> NotSent]

L0 == [pdrv |-> 0, sector |-> 0, count |-> 0, ctrl |-> "none", sect |-> 0,
       cmd |-> 0, arg |-> 0, n |-> 0, res |-> 0, ty |-> {}, icmd |-> 0,
       ocr |-> <<0, 0, 0, 0>>, token |-> 0, btr |-> 0, s |-> {},
       ires |-> RES_OK, count0 |-> 0, ct0 |-> {}, neg |-> NoNeg,
       buff |-> 0, buf |-> [j \in 0 .. MaxCount - 1 |-> 0], prev |-> "none",
       spin |-> 0]

\* spin alternates with every turn of a polling loop, which tells a turn of
\* the loop from the caller standing still

\* the caller's data: the 512-byte region at offset off * 512 of the buffer
\* handed to disk_write holds block content off + 1 (0 is "nothing stored")
DataAt(off) == off + 1

NoRet == [op |-> "none", stat |-> {}, res |-> "none"]

Ev(k, v, a) == [k |-> k, v |-> v, a |-> a]

\* events are recorded for the data operations only: disk_initialize polls
\* without a bound on the number of commands it sends
Logged == op \in {"disk_read", "disk_write", "disk_ioctl"}

Log(evs) == IF Logged THEN bus \o evs ELSE bus

\* positions of the events of kind k, and of those carrying value v
Kind(k) == {i \in DOMAIN bus : bus[i].k = k}
Idx(k, v) == {i \in DOMAIN bus : bus[i].k = k /\ bus[i].v = v}


-----------------------------------------------------------------------------
(* Control transfer of the caller *)

Frame(retl) == [ret |-> retl, cmd |-> L.cmd, arg |-> L.arg]

\* call f, to come back at retl; L1 holds the callee's parameters
Call(f, retl, L1) ==
    /\ pc' = f
    /\ stack' = <<Frame(retl)>> \o stack
    /\ L' = L1
    /\ UNCHANGED rv

\* return v to the caller; the caller's cmd and arg come back into scope
Return(v, L1) ==
    /\ rv' = v
    /\ pc' = Head(stack).ret
    /\ stack' = Tail(stack)
    /\ L' = [L1 EXCEPT !.cmd = Head(stack).cmd, !.arg = Head(stack).arg]

Goto(l, L1) ==
    /\ pc' = l
    /\ L' = L1
    /\ UNCHANGED <<stack, rv>>

\* a step that exchanges bytes; cs tells whether it drives the select line
OnBus(evs, cs) ==
    /\ bus' = Log(evs)
    /\ xchgd' = TRUE
    /\ csDriven' = (csDriven \/ cs)

OffBus == UNCHANGED <<bus, xchgd, csDriven>>

\* variant: the dummy clock without CS_HIGH()
mmc_deselect_NoCS ==
    /\ UNCHANGED CS
    /\ OnBus(<<Ev("cs", 1, 0)>>, FALSE)

\* CS_HIGH(); xchg_spi(0xFF);
mmc_deselect ==
    /\ CS' = CS_HIGH
    /\ OnBus(<<Ev("cs", 1, 0)>>, TRUE)

Inner == UNCHANGED <<op, ret, removed, callRemoved>>

-----------------------------------------------------------------------------
(* disk_timerproc: the 1 kHz handler *)

\* a timer after k invocations: decremented while nonzero, stopped at zero
TimerAfter(t, k) == IF t > k THEN t - k ELSE 0

\* variant: an absent card sets STA_NODISK alone
SocketStatus_KeepInit(s, wp, cd) ==
    LET s1 == IF wp # 0 THEN s \cup {STA_PROTECT} ELSE s \ {STA_PROTECT}
    IN  IF cd # 0 THEN s1 \ {STA_NODISK} ELSE s1 \cup {STA_NODISK}

\* the status flags after the handler sampled the two lines
SocketStatus(s, wp, cd) ==
    LET s1 == IF wp # 0 THEN s \cup {STA_PROTECT} ELSE s \ {STA_PROTECT}
    IN  IF cd # 0 THEN s1 \ {STA_NODISK} ELSE s1 \cup {STA_NODISK, STA_NOINIT}

disk_timerproc(k, wp, cd) ==
    /\ Timer1' = TimerAfter(Timer1, k)
    /\ Timer2' = TimerAfter(Timer2, k)
    /\ Stat' = SocketStatus(Stat, wp, cd)
    /\ removed' = (removed \/ cd = 0)
    /\ UNCHANGED <<CardType, CS, pc, stack, op, L, rv, ret, bus, xchgd,
                   csDriven, callRemoved>>

\* a burst of TickBurst invocations between two steps of the caller
Tick ==
    \E wp \in Levels, cd \in Levels :
        /\ disk_timerproc(TickBurst, wp, cd)
        /\ UNCHANGED ticks

-----------------------------------------------------------------------------
(* wait_ready, mmc_select *)

\* variant: the wait gives up one tick early
wr_continue_Early(d, t2) == (d # 255) /\ (t2 > 1)

\* variant: the wait goes on until the card is ready
wr_continue_NoTimer(d, t2) == d # 255

\* loop condition of wait_ready
wr_continue(d, t2) == (d # 255) /\ (t2 # 0)

wait_ready ==
    /\ pc = "wait_ready"
    /\ Timer2' = WAIT_READY_TICKS
    /\ ticks' = 0
    /\ Goto("wr_loop", L)
    /\ OffBus /\ Inner
    /\ UNCHANGED <<Stat, Timer1, CardType, CS>>

wr_loop ==
    /\ pc = "wr_loop"
    /\ \E d \in ReadyBytes :
        IF wr_continue(d, Timer2)
        THEN /\ Goto("wr_loop", [L EXCEPT !.spin = 1 - L.spin])
             /\ OnBus(<<>>, FALSE)
        ELSE /\ Return(IF d = 255 THEN 1 ELSE 0, [L EXCEPT !.spin = 0])
             /\ OnBus(<<Ev("rdy", IF d = 255 THEN 1 ELSE 0, 0)>>, FALSE)
    /\ Inner
    /\ UNCHANGED <<Stat, Timer1, Timer2, CardType, CS, ticks>>

mmc_select ==
    /\ pc = "mmc_select"
    /\ CS' = CS_LOW
    /\ OnBus(<<Ev("cs", 0, 0)>>, TRUE)
    /\ Call("wait_ready", "ms_ret", L)
    /\ Inner
    /\ UNCHANGED <<Stat, Timer1, Timer2, CardType, ticks>>

ms_ret ==
    /\ pc = "ms_ret"
    /\ IF rv # 0
       THEN /\ Return(1, L)
            /\ OffBus
            /\ UNCHANGED CS
       ELSE /\ Return(0, L)
            /\ mmc_deselect
    /\ Inner
    /\ UNCHANGED <<Stat, Timer1, Timer2, CardType, ticks>>

-----------------------------------------------------------------------------
(* rcvr_datablock, xmit_datablock *)

\* loop condition of rcvr_datablock
rd_continue(token, t1) == (token = 255) /\ (t1 # 0)

\* variant: any byte but the filler is taken for the start token
ValidToken_AnyToken(token) == token # 255

\* the start-of-data token ends the wait with success
ValidToken(token) == token = TOKEN_SINGLE

\* A card that keeps what it accepted: the address of the block sent at
\* position t of the log is the argument of the write command before it plus
\* one unit (512 on a byte-addressed card, 1 on a block-addressed one) for
\* every data block sent since that command.
Last(S) == CHOOSE m \in S : \A x \in S : x <= m

Unit == IF CT_BLOCK \in CardType THEN 1 ELSE 512

WriteCmds == Idx("cmd", CMD24) \cup Idx("cmd", CMD25)

ReadCmds == Idx("cmd", CMD17) \cup Idx("cmd", CMD18)

DataBlocks == {t \in Kind("tok") : bus[t].v # TOKEN_STOP}

BlockAddress(t) ==
    LET c == Last({w \in WriteCmds : w < t})
    IN  bus[c].a + Unit * Cardinality({u \in DataBlocks : c < u /\ u < t})

\* accepted blocks stored at address a, and what the card holds there
StoredAt(a) ==
    {t \in DataBlocks : /\ \E w \in WriteCmds : w < t
                        /\ bus[t + 1].k = "dresp" /\ bus[t + 1].v % 32 = 5
                        /\ BlockAddress(t) = a}

CardHolds(a) == IF StoredAt(a) = {} THEN 0 ELSE bus[Last(StoredAt(a))].a

\* the frame the card sends next: the block at the address of the read
\* command in progress, one unit further for every frame already sent
CardFrame ==
    IF ReadCmds = {} THEN 0
    ELSE LET c == Last(ReadCmds)
         IN  CardHolds(bus[c].a + Unit * Cardinality({x \in Idx("rx", TOKEN_SINGLE) : x > c}))

rcvr_datablock ==
    /\ pc = "rcvr_datablock"
    /\ Timer1' = DATA_TOKEN_TICKS
    /\ Goto("rd_loop", L)
    /\ OffBus /\ Inner
    /\ UNCHANGED <<Stat, Timer2, CardType, CS, ticks>>

rd_loop ==
    /\ pc = "rd_loop"
    /\ \E token \in TokenBytes :
        IF rd_continue(token, Timer1)
        THEN /\ Goto("rd_loop", [L EXCEPT !.spin = 1 - L.spin])
             /\ OnBus(<<>>, FALSE)
        ELSE /\ IF ~ValidToken(token)
                THEN Return(0, [L EXCEPT !.btr = 0, !.spin = 0])
                ELSE Return(1, [L EXCEPT !.btr = 0, !.spin = 0, !.buf[L.buff] = CardFrame])
             /\ OnBus(<<Ev("rx", token, L.btr)>>, FALSE)
    /\ Inner
    /\ UNCHANGED <<Stat, Timer1, Timer2, CardType, CS, ticks>>

\* variant: the data response masked with 0x0F
Accepted_Low4(resp) == (resp % 16) = 5

\* the data response says the block was accepted
Accepted(resp) == (resp % 32) = 5

xmit_datablock ==
    /\ pc = "xmit_datablock"
    /\ Call("wait_ready", "xd_ready", L)
    /\ OffBus /\ Inner
    /\ UNCHANGED <<Stat, Timer1, Timer2, CardType, CS, ticks>>

xd_ready ==
    /\ pc = "xd_ready"
    /\ IF rv = 0
       THEN /\ Return(0, [L EXCEPT !.token = 0])
            /\ OffBus
       ELSE IF L.token # TOKEN_STOP
            THEN \E resp \in DataRespBytes :
                   /\ Return(IF Accepted(resp) THEN 1 ELSE 0, [L EXCEPT !.token = 0])
                   /\ OnBus(<<Ev("tok", L.token, DataAt(L.buff)), Ev("dresp", resp, 0)>>, FALSE)
            ELSE /\ Return(1, [L EXCEPT !.token = 0])
                 /\ OnBus(<<Ev("tok", L.token, 0)>>, FALSE)
    /\ Inner
    /\ UNCHANGED <<Stat, Timer1, Timer2, CardType, CS, ticks>>

-----------------------------------------------------------------------------
(* send_cmd *)

IsACMD(cmd) == (cmd \div ACMD_FLAG) % 2 = 1

\* the response loop goes on: high bit set and attempts left
sc_continue(res, n) == (res >= 128) /\ (n - 1 # 0)

send_cmd ==
    /\ pc = "send_cmd"
    /\ IF IsACMD(L.cmd)
       THEN /\ pc' = "send_cmd"
            /\ stack' = <<[ret |-> "sc_acmd", cmd |-> L.cmd % ACMD_FLAG, arg |-> L.arg]>> \o stack
            /\ L' = [L EXCEPT !.cmd = CMD55, !.arg = 0]
            /\ UNCHANGED rv
       ELSE Goto("sc_select", L)
    /\ OffBus /\ Inner
    /\ UNCHANGED <<Stat, Timer1, Timer2, CardType, CS, ticks>>

sc_acmd ==
    /\ pc = "sc_acmd"
    /\ IF rv > 1
       THEN Return(rv, [L EXCEPT !.n = 0, !.res = 0])
       ELSE Goto("sc_select", L)
    /\ OffBus /\ Inner
    /\ UNCHANGED <<Stat, Timer1, Timer2, CardType, CS, ticks>>

sc_select ==
    /\ pc = "sc_select"
    /\ IF L.cmd # CMD12
       THEN /\ mmc_deselect
            /\ Call("mmc_select", "sc_selected", L)
       ELSE /\ Goto("sc_frame", L)
            /\ OffBus
            /\ UNCHANGED CS
    /\ Inner
    /\ UNCHANGED <<Stat, Timer1, Timer2, CardType, ticks>>

\* variant: the frame is sent whatever mmc_select returned
sc_selected_Ignore ==
    /\ pc = "sc_selected"
    /\ Goto("sc_frame", L)
    /\ OffBus /\ Inner
    /\ UNCHANGED <<Stat, Timer1, Timer2, CardType, CS, ticks>>

sc_selected ==
    /\ pc = "sc_selected"
    /\ IF rv = 0
       THEN Return(255, [L EXCEPT !.n = 0, !.res = 0])
       ELSE Goto("sc_frame", L)
    /\ OffBus /\ Inner
    /\ UNCHANGED <<Stat, Timer1, Timer2, CardType, CS, ticks>>

sc_frame ==
    /\ pc = "sc_frame"
    /\ Goto("sc_resp", [L EXCEPT !.n = RESP_ATTEMPTS])
    /\ OnBus(<<Ev("cmd", L.cmd, L.arg)>>, FALSE)
    /\ Inner
    /\ UNCHANGED <<Stat, Timer1, Timer2, CardType, CS, ticks>>

sc_resp ==
    /\ pc = "sc_resp"
    /\ \E res \in R1Bytes :
        IF sc_continue(res, L.n)
        THEN /\ Goto("sc_resp", [L EXCEPT !.n = L.n - 1])
             /\ OnBus(<<>>, FALSE)
        ELSE /\ Return(res, [L EXCEPT !.n = 0, !.res = 0])
             /\ OnBus(<<Ev("r1", res, 0)>>, FALSE)
    /\ Inner
    /\ UNCHANGED <<Stat, Timer1, Timer2, CardType, CS, ticks>>

Internal ==
    \/ wait_ready \/ wr_loop \/ mmc_select \/ ms_ret
    \/ rcvr_datablock \/ rd_loop \/ xmit_datablock \/ xd_ready
    \/ send_cmd \/ sc_acmd \/ sc_select \/ sc_selected \/ sc_frame \/ sc_resp

-----------------------------------------------------------------------------
(* Entry and exit of the public operations *)

Enter(name, L1) ==
    /\ pc = "idle"
    /\ pc' = name
    /\ op' = name
    /\ L' = [L1 EXCEPT !.ct0 = CardType]
    /\ callRemoved' = removed
    /\ UNCHANGED <<Stat, Timer1, Timer2, CardType, CS, stack, rv, ret, bus,
                   xchgd, csDriven, removed, ticks>>

\* the operation returns: DSTATUS stat or DRESULT res goes to the caller
Done(stat, res) ==
    /\ pc' = "done"
    /\ ret' = [op |-> op, stat |-> stat, res |-> res]
    /\ UNCHANGED <<stack, rv, L>>

Finish == UNCHANGED <<op, removed, callRemoved>>

call_disk_status == \E p \in Drives : Enter("disk_status", [L0 EXCEPT !.pdrv = p])

call_disk_initialize == \E p \in Drives : Enter("disk_initialize", [L0 EXCEPT !.pdrv = p])

call_disk_read ==
    \E p \in Drives, s \in Sectors, c \in Counts :
        Enter("disk_read", [L0 EXCEPT !.pdrv = p, !.sector = s, !.count = c, !.count0 = c])

call_disk_write ==
    \E p \in Drives, s \in Sectors, c \in Counts :
        Enter("disk_write", [L0 EXCEPT !.pdrv = p, !.sector = s, !.count = c, !.count0 = c])

call_disk_ioctl ==
    \E p \in Drives, c \in IoctlCodes :
        Enter("disk_ioctl", [L0 EXCEPT !.pdrv = p, !.ctrl = c])

\* control is back with the caller; the locals of the call are gone
return_to_caller ==
    /\ pc = "done"
    /\ pc' = "idle"
    /\ op' = "none"
    /\ L' = L0
    /\ rv' = 0
    /\ ret' = NoRet
    /\ bus' = <<>>
    /\ xchgd' = FALSE
    /\ csDriven' = FALSE
    /\ callRemoved' = FALSE
    /\ UNCHANGED <<Stat, Timer1, Timer2, CardType, CS, stack, removed, ticks>>

-----------------------------------------------------------------------------
(* disk_status *)

status_result(pdrv, stat) == IF pdrv # 0 THEN {STA_NOINIT} ELSE stat

disk_status ==
    /\ pc = "disk_status"
    /\ Done(status_result(L.pdrv, Stat), "none")
    /\ OffBus /\ Finish
    /\ UNCHANGED <<Stat, Timer1, Timer2, CardType, CS, ticks>>

-----------------------------------------------------------------------------
(* disk_initialize *)

\* variant: the check pattern alone
R7Match_PatternOnly(ocr) == ocr[4] = 170

\* R7 echo check: voltage range accepted and check pattern 0xAA
R7Match(ocr) == ocr[3] = 1 /\ ocr[4] = 170

\* card capacity status bit of the OCR
CCS(ocr) == (ocr[1] \div 64) % 2 = 1

disk_initialize ==
    /\ pc = "disk_initialize"
    /\ IF L.pdrv # 0
       THEN /\ Done({STA_NOINIT}, "none")
            /\ OffBus
       ELSE IF STA_NODISK \in Stat
            THEN /\ Goto("di_ret", L)
                 /\ OffBus
                 /\ UNCHANGED ret
            ELSE /\ Call("send_cmd", "di_cmd0", [L EXCEPT !.ty = {}, !.cmd = CMD0, !.arg = 0])
                 /\ OnBus(<<>>, FALSE)
                 /\ UNCHANGED ret
    /\ Finish
    /\ UNCHANGED <<Stat, Timer1, Timer2, CardType, CS, ticks>>

di_cmd0 ==
    /\ pc = "di_cmd0"
    /\ IF rv = 1
       THEN /\ Timer1' = INIT_TICKS
            /\ Call("send_cmd", "di_cmd8",
                    [L EXCEPT !.cmd = CMD8, !.arg = 426, !.neg.cmd0 = rv])
       ELSE /\ Goto("di_end", [L EXCEPT !.neg.cmd0 = rv])
            /\ UNCHANGED Timer1
    /\ OffBus /\ Inner
    /\ UNCHANGED <<Stat, Timer2, CardType, CS, ticks>>

di_cmd8 ==
    /\ pc = "di_cmd8"
    /\ IF rv = 1
       THEN \E r7 \in R7Tails :
              /\ Goto(IF R7Match(r7) THEN "di_v2_loop" ELSE "di_end",
                      [L EXCEPT !.ocr = r7, !.neg.cmd8 = rv, !.neg.r7 = r7])
              /\ OnBus(<<>>, FALSE)
       ELSE /\ Call("send_cmd", "di_probe",
                    [L EXCEPT !.cmd = ACMD41, !.arg = 0, !.neg.cmd8 = rv])
            /\ OffBus
    /\ Inner
    /\ UNCHANGED <<Stat, Timer1, Timer2, CardType, CS, ticks>>

di_v2_loop ==
    /\ pc = "di_v2_loop"
    /\ IF Timer1 # 0
       THEN Call("send_cmd", "di_v2_chk", [L EXCEPT !.cmd = ACMD41, !.arg = 1073741824])
       ELSE Goto("di_v2_after", L)
    /\ OffBus /\ Inner
    /\ UNCHANGED <<Stat, Timer1, Timer2, CardType, CS, ticks>>

di_v2_chk ==
    /\ pc = "di_v2_chk"
    /\ IF rv # 0
       THEN Goto("di_v2_loop", L)
       ELSE Goto("di_v2_after", [L EXCEPT !.neg.poll = rv])
    /\ OffBus /\ Inner
    /\ UNCHANGED <<Stat, Timer1, Timer2, CardType, CS, ticks>>

di_v2_after ==
    /\ pc = "di_v2_after"
    /\ IF Timer1 # 0
       THEN Call("send_cmd", "di_cmd58", [L EXCEPT !.cmd = CMD58, !.arg = 0, !.neg.t1 = TRUE])
       ELSE Goto("di_end", L)
    /\ OffBus /\ Inner
    /\ UNCHANGED <<Stat, Timer1, Timer2, CardType, CS, ticks>>

di_cmd58 ==
    /\ pc = "di_cmd58"
    /\ IF rv = 0
       THEN \E o \in OCRs :
              /\ Goto("di_end", [L EXCEPT !.ocr = o,
                                          !.ty = IF CCS(o) THEN {CT_SD2, CT_BLOCK} ELSE {CT_SD2},
                                          !.neg.fin = rv])
              /\ OnBus(<<>>, FALSE)
       ELSE /\ Goto("di_end", [L EXCEPT !.neg.fin = rv])
            /\ OffBus
    /\ Inner
    /\ UNCHANGED <<Stat, Timer1, Timer2, CardType, CS, ticks>>

\* variant: SDv1 only when ACMD41 is answered with 0
di_probe_Strict ==
    /\ pc = "di_probe"
    /\ IF rv = 0
       THEN Goto("di_v1_loop", [L EXCEPT !.ty = {CT_SD1}, !.icmd = ACMD41, !.neg.probe = rv])
       ELSE Goto("di_v1_loop", [L EXCEPT !.ty = {CT_MMC}, !.icmd = CMD1, !.neg.probe = rv])
    /\ OffBus /\ Inner
    /\ UNCHANGED <<Stat, Timer1, Timer2, CardType, CS, ticks>>

di_probe ==
    /\ pc = "di_probe"
    /\ IF rv <= 1
       THEN Goto("di_v1_loop", [L EXCEPT !.ty = {CT_SD1}, !.icmd = ACMD41, !.neg.probe = rv])
       ELSE Goto("di_v1_loop", [L EXCEPT !.ty = {CT_MMC}, !.icmd = CMD1, !.neg.probe = rv])
    /\ OffBus /\ Inner
    /\ UNCHANGED <<Stat, Timer1, Timer2, CardType, CS, ticks>>

di_v1_loop ==
    /\ pc = "di_v1_loop"
    /\ IF Timer1 # 0
       THEN Call("send_cmd", "di_v1_chk", [L EXCEPT !.cmd = L.icmd, !.arg = 0])
       ELSE Goto("di_v1_after", L)
    /\ OffBus /\ Inner
    /\ UNCHANGED <<Stat, Timer1, Timer2, CardType, CS, ticks>>

di_v1_chk ==
    /\ pc = "di_v1_chk"
    /\ IF rv # 0
       THEN Goto("di_v1_loop", L)
       ELSE Goto("di_v1_after", [L EXCEPT !.neg.poll = rv])
    /\ OffBus /\ Inner
    /\ UNCHANGED <<Stat, Timer1, Timer2, CardType, CS, ticks>>

di_v1_after ==
    /\ pc = "di_v1_after"
    /\ IF Timer1 = 0
       THEN Goto("di_end", [L EXCEPT !.ty = {}])
       ELSE Call("send_cmd", "di_cmd16", [L EXCEPT !.cmd = CMD16, !.arg = 512, !.neg.t1 = TRUE])
    /\ OffBus /\ Inner
    /\ UNCHANGED <<Stat, Timer1, Timer2, CardType, CS, ticks>>

di_cmd16 ==
    /\ pc = "di_cmd16"
    /\ Goto("di_end", IF rv # 0 THEN [L EXCEPT !.ty = {}, !.neg.fin = rv]
                               ELSE [L EXCEPT !.neg.fin = rv])
    /\ OffBus /\ Inner
    /\ UNCHANGED <<Stat, Timer1, Timer2, CardType, CS, ticks>>

\* variant: a failed run keeps the stored card type
di_end_KeepOnFail ==
    /\ pc = "di_end"
    /\ CardType' = IF L.ty # {} THEN L.ty ELSE CardType
    /\ mmc_deselect
    /\ Goto(IF L.ty # {} THEN "di_load" ELSE "di_ret", L)
    /\ Inner
    /\ UNCHANGED <<Stat, Timer1, Timer2, ticks>>

\* CardType = ty; mmc_deselect(); then the branch on ty
di_end ==
    /\ pc = "di_end"
    /\ CardType' = L.ty
    /\ mmc_deselect
    /\ Goto(IF L.ty # {} THEN "di_load" ELSE "di_ret", L)
    /\ Inner
    /\ UNCHANGED <<Stat, Timer1, Timer2, ticks>>

\* Stat &= ~STA_NOINIT is a load and a store of the volatile Stat
di_load ==
    /\ pc = "di_load"
    /\ Goto("di_store", [L EXCEPT !.s = Stat])
    /\ OffBus /\ Inner
    /\ UNCHANGED <<Stat, Timer1, Timer2, CardType, CS, ticks>>

di_store ==
    /\ pc = "di_store"
    /\ Stat' = L.s \ {STA_NOINIT}
    /\ removed' = FALSE
    /\ Goto("di_ret", [L EXCEPT !.s = {}])
    /\ OffBus
    /\ UNCHANGED <<op, ret, callRemoved>>
    /\ UNCHANGED <<Timer1, Timer2, CardType, CS, ticks>>

\* return Stat
di_ret ==
    /\ pc = "di_ret"
    /\ Done(Stat, "none")
    /\ OffBus /\ Finish
    /\ UNCHANGED <<Stat, Timer1, Timer2, CardType, CS, ticks>>

Initialize ==
    \/ disk_initialize \/ di_cmd0 \/ di_cmd8 \/ di_v2_loop \/ di_v2_chk
    \/ di_v2_after \/ di_cmd58 \/ di_probe \/ di_v1_loop \/ di_v1_chk
    \/ di_v1_after \/ di_cmd16 \/ di_end \/ di_load \/ di_store \/ di_ret

-----------------------------------------------------------------------------
(* disk_read *)

\* byte address for a byte-addressed card, sector number otherwise (a DWORD)
Address(sector, ct) ==
    IF CT_BLOCK \notin ct THEN (sector % SECTOR_WRAP) * 512 ELSE sector

\* return count ? RES_ERROR : RES_OK
io_result(count) == IF count # 0 THEN RES_ERROR ELSE RES_OK

\* variant: the drive number is not looked at
ParamError_AnyDrive(pdrv, count) == count = 0

\* if (pdrv || !count) return RES_PARERR;
ParamError(pdrv, count) == pdrv # 0 \/ count = 0

\* if (Stat & STA_NOINIT) return RES_NOTRDY;
NotReady(stat) == STA_NOINIT \in stat

\* variant: the not-ready exit goes through the common deselect
disk_read_LateExit ==
    /\ pc = "disk_read"
    /\ IF ParamError(L.pdrv, L.count)
       THEN /\ Done({}, RES_PARERR)
            /\ OffBus
            /\ UNCHANGED CS
       ELSE IF NotReady(Stat)
            THEN /\ Done({}, RES_NOTRDY)
                 /\ mmc_deselect
            ELSE /\ Call("send_cmd", IF L.count = 1 THEN "dr_single" ELSE "dr_multi",
                         [L EXCEPT !.sect = Address(L.sector, CardType),
                                   !.cmd = IF L.count = 1 THEN CMD17 ELSE CMD18,
                                   !.arg = Address(L.sector, CardType)])
                 /\ UNCHANGED ret
                 /\ OffBus
                 /\ UNCHANGED CS
    /\ Finish
    /\ UNCHANGED <<Stat, Timer1, Timer2, CardType, ticks>>

disk_read ==
    /\ pc = "disk_read"
    /\ IF ParamError(L.pdrv, L.count)
       THEN Done({}, RES_PARERR)
       ELSE IF NotReady(Stat)
            THEN Done({}, RES_NOTRDY)
            ELSE /\ Call("send_cmd", IF L.count = 1 THEN "dr_single" ELSE "dr_multi",
                         [L EXCEPT !.sect = Address(L.sector, CardType),
                                   !.cmd = IF L.count = 1 THEN CMD17 ELSE CMD18,
                                   !.arg = Address(L.sector, CardType)])
                 /\ UNCHANGED ret
    /\ OffBus /\ Finish
    /\ UNCHANGED <<Stat, Timer1, Timer2, CardType, CS, ticks>>

dr_single ==
    /\ pc = "dr_single"
    /\ IF rv = 0
       THEN Call("rcvr_datablock", "dr_single_rx", [L EXCEPT !.btr = 512])
       ELSE Goto("dr_end", L)
    /\ OffBus /\ Inner
    /\ UNCHANGED <<Stat, Timer1, Timer2, CardType, CS, ticks>>

dr_single_rx ==
    /\ pc = "dr_single_rx"
    /\ Goto("dr_end", IF rv # 0 THEN [L EXCEPT !.count = 0] ELSE L)
    /\ OffBus /\ Inner
    /\ UNCHANGED <<Stat, Timer1, Timer2, CardType, CS, ticks>>

dr_multi ==
    /\ pc = "dr_multi"
    /\ IF rv = 0
       THEN Call("rcvr_datablock", "dr_multi_rx", [L EXCEPT !.btr = 512])
       ELSE Goto("dr_end", L)
    /\ OffBus /\ Inner
    /\ UNCHANGED <<Stat, Timer1, Timer2, CardType, CS, ticks>>

\* variant: a failed frame leaves without STOP_TRANSMISSION
dr_multi_rx_NoStop ==
    /\ pc = "dr_multi_rx"
    /\ IF rv = 0
       THEN Goto("dr_end", L)
       ELSE IF L.count - 1 # 0
            THEN Call("rcvr_datablock", "dr_multi_rx",
                      [L EXCEPT !.count = L.count - 1, !.buff = L.buff + 1, !.btr = 512])
            ELSE Goto("dr_stop", [L EXCEPT !.count = L.count - 1, !.buff = L.buff + 1])
    /\ OffBus /\ Inner
    /\ UNCHANGED <<Stat, Timer1, Timer2, CardType, CS, ticks>>

\* variant: every frame is stored at the start of the buffer
dr_multi_rx_NoAdvance ==
    /\ pc = "dr_multi_rx"
    /\ IF rv = 0
       THEN Goto("dr_stop", L)
       ELSE IF L.count - 1 # 0
            THEN Call("rcvr_datablock", "dr_multi_rx",
                      [L EXCEPT !.count = L.count - 1, !.btr = 512])
            ELSE Goto("dr_stop", [L EXCEPT !.count = L.count - 1])
    /\ OffBus /\ Inner
    /\ UNCHANGED <<Stat, Timer1, Timer2, CardType, CS, ticks>>

\* do { if (!rcvr_datablock(...)) break; buff += 512; } while (--count);
dr_multi_rx ==
    /\ pc = "dr_multi_rx"
    /\ IF rv = 0
       THEN Goto("dr_stop", L)
       ELSE IF L.count - 1 # 0
            THEN Call("rcvr_datablock", "dr_multi_rx",
                      [L EXCEPT !.count = L.count - 1, !.buff = L.buff + 1, !.btr = 512])
            ELSE Goto("dr_stop", [L EXCEPT !.count = L.count - 1, !.buff = L.buff + 1])
    /\ OffBus /\ Inner
    /\ UNCHANGED <<Stat, Timer1, Timer2, CardType, CS, ticks>>

dr_stop ==
    /\ pc = "dr_stop"
    /\ Call("send_cmd", "dr_end", [L EXCEPT !.cmd = CMD12, !.arg = 0])
    /\ OffBus /\ Inner
    /\ UNCHANGED <<Stat, Timer1, Timer2, CardType, CS, ticks>>

\* mmc_deselect(); return count ? RES_ERROR : RES_OK
dr_end ==
    /\ pc = "dr_end"
    /\ mmc_deselect
    /\ Done({}, io_result(L.count))
    /\ Finish
    /\ UNCHANGED <<Stat, Timer1, Timer2, CardType, ticks>>

Read == disk_read \/ dr_single \/ dr_single_rx \/ dr_multi \/ dr_multi_rx \/ dr_stop \/ dr_end

-----------------------------------------------------------------------------
(* disk_write *)

disk_write ==
    /\ pc = "disk_write"
    /\ IF ParamError(L.pdrv, L.count)
       THEN Done({}, RES_PARERR)
       ELSE IF NotReady(Stat)
            THEN Done({}, RES_NOTRDY)
            ELSE /\ Goto("dw_prot", L)
                 /\ UNCHANGED ret
    /\ OffBus /\ Finish
    /\ UNCHANGED <<Stat, Timer1, Timer2, CardType, CS, ticks>>

\* the pre-erase hint is sent to SD cards before a multiple block write
Hinted(ct) == ct \cap CT_SDC # {}

dw_prot ==
    /\ pc = "dw_prot"
    /\ IF STA_PROTECT \in Stat
       THEN Done({}, RES_WRPRT)
       ELSE /\ UNCHANGED ret
            /\ LET L1 == [L EXCEPT !.sect = Address(L.sector, CardType)]
               IN  IF L.count = 1
                   THEN Call("send_cmd", "dw_single",
                             [L1 EXCEPT !.cmd = CMD24, !.arg = L1.sect])
                   ELSE IF Hinted(CardType)
                        THEN Call("send_cmd", "dw_cmd25",
                                  [L1 EXCEPT !.cmd = ACMD23, !.arg = L.count])
                        ELSE Call("send_cmd", "dw_multi",
                                  [L1 EXCEPT !.cmd = CMD25, !.arg = L1.sect])
    /\ OffBus /\ Finish
    /\ UNCHANGED <<Stat, Timer1, Timer2, CardType, CS, ticks>>

\* the response to ACMD23 is not looked at
dw_cmd25 ==
    /\ pc = "dw_cmd25"
    /\ Call("send_cmd", "dw_multi", [L EXCEPT !.cmd = CMD25, !.arg = L.sect])
    /\ OffBus /\ Inner
    /\ UNCHANGED <<Stat, Timer1, Timer2, CardType, CS, ticks>>

dw_single ==
    /\ pc = "dw_single"
    /\ IF rv = 0
       THEN Call("xmit_datablock", "dw_single_tx", [L EXCEPT !.token = TOKEN_SINGLE])
       ELSE Goto("dw_end", L)
    /\ OffBus /\ Inner
    /\ UNCHANGED <<Stat, Timer1, Timer2, CardType, CS, ticks>>

dw_single_tx ==
    /\ pc = "dw_single_tx"
    /\ Goto("dw_end", IF rv # 0 THEN [L EXCEPT !.count = 0] ELSE L)
    /\ OffBus /\ Inner
    /\ UNCHANGED <<Stat, Timer1, Timer2, CardType, CS, ticks>>

dw_multi ==
    /\ pc = "dw_multi"
    /\ IF rv = 0
       THEN Call("xmit_datablock", "dw_multi_tx", [L EXCEPT !.token = TOKEN_MULTI])
       ELSE Goto("dw_end", L)
    /\ OffBus /\ Inner
    /\ UNCHANGED <<Stat, Timer1, Timer2, CardType, CS, ticks>>

\* variant: a rejected block leaves without the STOP_TRAN token
dw_multi_tx_NoStop ==
    /\ pc = "dw_multi_tx"
    /\ IF rv = 0
       THEN Goto("dw_end", L)
       ELSE IF L.count - 1 # 0
            THEN Call("xmit_datablock", "dw_multi_tx",
                      [L EXCEPT !.count = L.count - 1, !.buff = L.buff + 1, !.token = TOKEN_MULTI])
            ELSE Goto("dw_stop", [L EXCEPT !.count = L.count - 1, !.buff = L.buff + 1])
    /\ OffBus /\ Inner
    /\ UNCHANGED <<Stat, Timer1, Timer2, CardType, CS, ticks>>

\* do { if (!xmit_datablock(buff, 0xFC)) break; buff += 512; } while (--count);
dw_multi_tx ==
    /\ pc = "dw_multi_tx"
    /\ IF rv = 0
       THEN Goto("dw_stop", L)
       ELSE IF L.count - 1 # 0
            THEN Call("xmit_datablock", "dw_multi_tx",
                      [L EXCEPT !.count = L.count - 1, !.buff = L.buff + 1, !.token = TOKEN_MULTI])
            ELSE Goto("dw_stop", [L EXCEPT !.count = L.count - 1, !.buff = L.buff + 1])
    /\ OffBus /\ Inner
    /\ UNCHANGED <<Stat, Timer1, Timer2, CardType, CS, ticks>>

dw_stop ==
    /\ pc = "dw_stop"
    /\ Call("xmit_datablock", "dw_stop_ret", [L EXCEPT !.token = TOKEN_STOP])
    /\ OffBus /\ Inner
    /\ UNCHANGED <<Stat, Timer1, Timer2, CardType, CS, ticks>>

\* if (!xmit_datablock(0, 0xFD)) count = 1;
dw_stop_ret ==
    /\ pc = "dw_stop_ret"
    /\ Goto("dw_end", IF rv = 0 THEN [L EXCEPT !.count = 1] ELSE L)
    /\ OffBus /\ Inner
    /\ UNCHANGED <<Stat, Timer1, Timer2, CardType, CS, ticks>>

dw_end ==
    /\ pc = "dw_end"
    /\ mmc_deselect
    /\ Done({}, io_result(L.count))
    /\ Finish
    /\ UNCHANGED <<Stat, Timer1, Timer2, CardType, ticks>>

Write ==
    \/ disk_write \/ dw_prot \/ dw_cmd25 \/ dw_single \/ dw_single_tx
    \/ dw_multi \/ dw_multi_tx \/ dw_stop \/ dw_stop_ret \/ dw_end

-----------------------------------------------------------------------------
(* disk_ioctl *)

\* control codes that read a register with a command and a data block
IoCommand(ctrl, ct) ==
    CASE ctrl \in {"GET_SECTOR_COUNT", "MMC_GET_CSD"} -> CMD9
      [] ctrl = "GET_BLOCK_SIZE" -> IF CT_SD2 \in ct THEN ACMD13 ELSE CMD9
      [] ctrl = "MMC_GET_CID" -> CMD10
      [] ctrl = "MMC_GET_OCR" -> CMD58
      [] ctrl = "MMC_GET_SDSTAT" -> ACMD13

\* MMC_GET_SDSTAT sends its command to an SDv2 card only
SdStatAllowed(ct) == CT_SD2 \in ct

IoBytes(ctrl) == IF ctrl = "MMC_GET_SDSTAT" THEN 64 ELSE 16

disk_ioctl ==
    /\ pc = "disk_ioctl"
    /\ IF L.pdrv # 0
       THEN Done({}, RES_PARERR)
       ELSE IF NotReady(Stat)
            THEN Done({}, RES_NOTRDY)
            ELSE /\ UNCHANGED ret
                 /\ LET L1 == [L EXCEPT !.ires = RES_ERROR]
                    IN  CASE L.ctrl = "CTRL_SYNC" ->
                               Call("mmc_select", "io_sync", L1)
                          [] L.ctrl = "MMC_GET_TYPE" ->
                               Goto("io_end", [L1 EXCEPT !.ires = RES_OK])
                          [] L.ctrl = "MMC_GET_SDSTAT" /\ ~SdStatAllowed(CardType) ->
                               Goto("io_end", L1)
                          [] L.ctrl \in {"GET_SECTOR_COUNT", "GET_BLOCK_SIZE", "MMC_GET_CSD",
                                         "MMC_GET_CID", "MMC_GET_OCR"}
                             \/ (L.ctrl = "MMC_GET_SDSTAT" /\ SdStatAllowed(CardType)) ->
                               Call("send_cmd", "io_cmd",
                                    [L1 EXCEPT !.cmd = IoCommand(L.ctrl, CardType), !.arg = 0])
                          [] OTHER ->
                               Goto("io_end", [L1 EXCEPT !.ires = RES_PARERR])
    /\ OffBus /\ Finish
    /\ UNCHANGED <<Stat, Timer1, Timer2, CardType, CS, ticks>>

io_sync ==
    /\ pc = "io_sync"
    /\ Goto("io_end", IF rv # 0 THEN [L EXCEPT !.ires = RES_OK] ELSE L)
    /\ OffBus /\ Inner
    /\ UNCHANGED <<Stat, Timer1, Timer2, CardType, CS, ticks>>

io_cmd ==
    /\ pc = "io_cmd"
    /\ IF rv # 0
       THEN /\ Goto("io_end", L)
            /\ OffBus
       ELSE IF L.ctrl = "MMC_GET_OCR"
            THEN /\ Goto("io_end", [L EXCEPT !.ires = RES_OK])
                 /\ OnBus(<<>>, FALSE)
            ELSE IF IoCommand(L.ctrl, CardType) = ACMD13
                 THEN /\ Call("rcvr_datablock", "io_rx", [L EXCEPT !.btr = IoBytes(L.ctrl)])
                      /\ OnBus(<<>>, FALSE)
                 ELSE /\ Call("rcvr_datablock", "io_rx", [L EXCEPT !.btr = IoBytes(L.ctrl)])
                      /\ OffBus
    /\ Inner
    /\ UNCHANGED <<Stat, Timer1, Timer2, CardType, CS, ticks>>

io_rx ==
    /\ pc = "io_rx"
    /\ IF rv # 0
       THEN /\ Goto("io_end", [L EXCEPT !.ires = RES_OK])
            /\ IF L.ctrl = "GET_BLOCK_SIZE" /\ CT_SD2 \in CardType
               THEN OnBus(<<>>, FALSE)
               ELSE OffBus
       ELSE /\ Goto("io_end", L)
            /\ OffBus
    /\ Inner
    /\ UNCHANGED <<Stat, Timer1, Timer2, CardType, CS, ticks>>

io_end ==
    /\ pc = "io_end"
    /\ mmc_deselect
    /\ Done({}, L.ires)
    /\ Finish
    /\ UNCHANGED <<Stat, Timer1, Timer2, CardType, ticks>>

Ioctl == disk_ioctl \/ io_sync \/ io_cmd \/ io_rx \/ io_end

-----------------------------------------------------------------------------
(* The driver with its caller, the card and the tick *)

Init ==
    /\ Stat = {STA_NOINIT}
    /\ Timer1 = 0
    /\ Timer2 = 0
    /\ CardType = {}
    /\ CS = CS_HIGH
    /\ pc = "idle"
    /\ stack = <<>>
    /\ op = "none"
    /\ L = L0
    /\ rv = 0
    /\ ret = NoRet
    /\ bus = <<>>
    /\ xchgd = FALSE
    /\ csDriven = FALSE
    /\ removed = FALSE
    /\ callRemoved = FALSE
    /\ ticks = 0

Calls ==
    \/ call_disk_status \/ call_disk_initialize \/ call_disk_read
    \/ call_disk_write \/ call_disk_ioctl

Caller == Calls \/ disk_status \/ Initialize \/ Read \/ Write \/ Ioctl \/ Internal \/ return_to_caller

Next == Caller \/ Tick

Spec == Init /\ [][Next]_vars

-----------------------------------------------------------------------------
(* The driver as built: the two sensed lines read as MMC_WP and MMC_CD, the
   handler invoked again and again, the caller never stopped *)

TickBuild ==
    /\ disk_timerproc(TickBurst, MMC_WP, MMC_CD)
    /\ UNCHANGED ticks

NextCard == Caller \/ TickBuild

SpecCard ==
    /\ Init
    /\ [][NextCard]_vars
    /\ WF_vars(TickBuild)
    /\ WF_vars(Caller)

-----------------------------------------------------------------------------
(* Write then read back: the caller initializes the drive, writes count
   sectors at a sector number and, when that went well, reads the same
   sectors back from a card that keeps what it accepted; the record of the bus runs on from the write into
   the read *)

\* sector numbers: a small one, and one whose byte address wraps in a DWORD
EchoSectors == {1, SECTOR_WRAP + 1}

rt_init == Enter("disk_initialize", L0)

rt_write ==
    \E s \in EchoSectors, c \in Counts \ {0} :
        Enter("disk_write", [L0 EXCEPT !.sector = s, !.count = c, !.count0 = c])

rt_read ==
    /\ pc = "done" /\ ret.op = "disk_write" /\ ret.res = RES_OK
    /\ pc' = "disk_read"
    /\ op' = "disk_read"
    /\ L' = [L0 EXCEPT !.sector = L.sector, !.count = L.count0, !.count0 = L.count0,
                       !.ct0 = CardType, !.prev = ret.res]
    /\ rv' = 0
    /\ ret' = NoRet
    /\ xchgd' = FALSE
    /\ csDriven' = FALSE
    /\ callRemoved' = removed
    /\ UNCHANGED <<Stat, Timer1, Timer2, CardType, CS, stack, bus, removed, ticks>>

rt_return ==
    /\ ret.op = "disk_write" => ret.res # RES_OK
    /\ return_to_caller

NextEcho ==
    \/ rt_init \/ rt_write \/ rt_read \/ rt_return
    \/ Initialize \/ Write \/ Read \/ Internal \/ TickBuild

SpecEcho == Init /\ [][NextEcho]_vars

-----------------------------------------------------------------------------
(* wait_ready alone, with every invocation of the handler a step of its own *)

\* one invocation of the handler, counted since Timer2 was armed
Tick1 ==
    \E wp \in Levels, cd \in Levels :
        /\ disk_timerproc(1, wp, cd)
        /\ ticks' = IF ticks < MaxTicks THEN ticks + 1 ELSE ticks

wh_call ==
    /\ pc = "idle"
    /\ op' = "wait_ready"
    /\ Call("wait_ready", "wh_done", L)
    /\ OffBus
    /\ UNCHANGED <<Stat, Timer1, Timer2, CardType, CS, ret, removed, callRemoved, ticks>>

wh_return ==
    /\ pc = "wh_done"
    /\ pc' = "idle"
    /\ op' = "none"
    /\ rv' = 0
    /\ xchgd' = FALSE
    /\ UNCHANGED <<Stat, Timer1, Timer2, CardType, CS, stack, L, ret, bus, csDriven,
                   removed, callRemoved, ticks>>

NextWait == wh_call \/ wait_ready \/ wr_loop \/ wh_return \/ Tick1

\* the time base keeps invoking the handler and the caller keeps polling
SpecWait ==
    /\ Init
    /\ [][NextWait]_vars
    /\ WF_vars(Tick1)
    /\ WF_vars(wait_ready)
    /\ WF_vars(wr_loop)

-----------------------------------------------------------------------------
(* What a finished call shows: readings of the bus events *)

Returned(name) == pc = "done" /\ ret.op = name

DataOps == {"disk_read", "disk_write", "disk_ioctl"}

\* command c was framed and the card answered it with response byte 0
CmdAccepted(c) ==
    \E i \in Idx("cmd", c) :
        i + 1 \in DOMAIN bus /\ bus[i + 1].k = "r1" /\ bus[i + 1].v = 0

\* data blocks the card answered with xxx00101, and with anything else
BlocksAccepted == {i \in Kind("dresp") : bus[i].v % 32 = 5}
BlocksRejected == {i \in Kind("dresp") : bus[i].v % 32 # 5}
StopTokens == Idx("tok", TOKEN_STOP)

\* frames that came with the 0xFE start token, and waits that ended otherwise
FramesReceived == Idx("rx", TOKEN_SINGLE)
FramesFailed == Kind("rx") \ FramesReceived

-----------------------------------------------------------------------------
(* Properties *)

\* C1: for a drive index other than 0, status and initialize return
\* STA_NOINIT and read, write and ioctl return RES_PARERR, no byte is
\* exchanged, the select line is not driven, and no step of the call changes
\* Stat, CardType, Timer1 or Timer2.
C1_OtherDriveRejected ==
    /\ [](pc = "done" /\ L.pdrv # 0 =>
            /\ ret.op \in {"disk_status", "disk_initialize"} => ret.stat = {STA_NOINIT}
            /\ ret.op \in DataOps => ret.res = RES_PARERR
            /\ ~xchgd /\ ~csDriven)
    /\ [][(L.pdrv # 0 \/ L'.pdrv # 0) /\ pc' # pc =>
            UNCHANGED <<Stat, CardType, Timer1, Timer2, CS>>]_vars

C1_Witness == Returned("disk_ioctl") /\ L.pdrv # 0 /\ ret.res = RES_PARERR

\* C2 (as claimed): when an initialize(0) run ends with card type none, the
\* status it returns has STA_NOINIT set, whatever Stat was before the call.
C2_FailedInitSetsNoinit ==
    Returned("disk_initialize") /\ L.pdrv = 0 /\ xchgd /\ CardType = {}
        => STA_NOINIT \in ret.stat

C4_DeselectedAtReturn == pc \in {"done", "idle"} => CS = CS_HIGH

C4_Witness ==
    /\ Returned("disk_write") /\ ret.res = RES_ERROR
    /\ \E i \in DOMAIN bus : bus[i] = Ev("rdy", 0, 0)
    /\ CS = CS_HIGH

\* C5 (as claimed): when read, write or ioctl returns RES_PARERR, RES_NOTRDY
\* or RES_WRPRT, no byte was exchanged and the select line was not driven
\* during the call.
C5_RejectedBeforeBus_Original ==
    pc = "done" /\ ret.op \in DataOps /\ ret.res \in {RES_PARERR, RES_NOTRDY, RES_WRPRT}
        => ~xchgd /\ ~csDriven

\* C5 (amended): the same, except for an unsupported ioctl control code on
\* an initialized drive 0: RES_PARERR is then returned after the common
\* trailing deselect (select line driven high, one filler byte), which is
\* the only bus activity of the call; no command is sent.
C5_RejectedBeforeBus ==
    pc = "done" /\ ret.op \in DataOps /\ ret.res \in {RES_PARERR, RES_NOTRDY, RES_WRPRT}
        => IF ret.op = "disk_ioctl" /\ ret.res = RES_PARERR /\ L.pdrv = 0
           THEN bus = <<Ev("cs", 1, 0)>> /\ CS = CS_HIGH
           ELSE ~xchgd /\ ~csDriven /\ bus = <<>>

C5_Witness == Returned("disk_write") /\ ret.res = RES_WRPRT /\ ~xchgd

\* a multiple block write whose CMD25 was accepted and one of whose blocks
\* the card rejected after accepting the ones before it
RejectedMultiWrite ==
    /\ Returned("disk_write") /\ L.count0 > 1
    /\ CmdAccepted(CMD25)
    /\ BlocksRejected # {}
    /\ Cardinality(BlocksAccepted) < L.count0

\* C6 (as claimed): such a write returns RES_ERROR, has sent the stop token
\* 0xFD exactly once, and leaves the card deselected.
C6_StopAfterReject_Original ==
    RejectedMultiWrite =>
        ret.res = RES_ERROR /\ Cardinality(StopTokens) = 1 /\ CS = CS_HIGH

\* C6 (amended): such a write returns RES_ERROR and leaves the card
\* deselected; the loop stops at the rejected block and the wait for ready
\* that follows decides the stop token: sent exactly once when the card
\* reports ready within the wait, not sent when the wait times out.
C6_StopAfterReject ==
    RejectedMultiWrite =>
        /\ ret.res = RES_ERROR /\ CS = CS_HIGH
        /\ Cardinality(BlocksRejected) = 1
        /\ \A r \in BlocksRejected :
             /\ r + 1 \in DOMAIN bus /\ bus[r + 1].k = "rdy"
             /\ Cardinality(StopTokens) = bus[r + 1].v
             /\ \A t \in StopTokens : t = r + 2

C6_Witness ==
    /\ RejectedMultiWrite
    /\ Cardinality(BlocksAccepted) = 1
    /\ Cardinality(StopTokens) = 1

\* the write command of the call, by its sector count
WriteCommand == IF L.count0 = 1 THEN CMD24 ELSE CMD25

\* everything a write needs from the card besides the pre-erase hint
WriteWentThrough ==
    /\ CmdAccepted(WriteCommand)
    /\ Cardinality(BlocksAccepted) = L.count0
    /\ L.count0 > 1 => Cardinality(StopTokens) = 1

\* the pre-erase hint was sent and not answered with 0
HintFailed ==
    \/ \E i \in Idx("cmd", ACMD23 % ACMD_FLAG) : bus[i + 1].k = "r1" /\ bus[i + 1].v # 0
    \/ \E i \in Idx("cmd", CMD55) : bus[i + 1].k = "r1" /\ bus[i + 1].v > 1

\* C7: write returns RES_OK only if the write command was answered with 0,
\* each of the count blocks got a data response xxx00101 and, for count > 1,
\* the stop token went out; and whenever all of that happened the result is
\* RES_OK, whatever the answer to the pre-erase hint.
C7_WriteOkOnlyIfAllAccepted ==
    Returned("disk_write") =>
        /\ ret.res = RES_OK =>
             L.pdrv = 0 /\ L.count0 >= 1 /\ WriteWentThrough /\ BlocksRejected = {}
        /\ L.count0 >= 1 /\ WriteWentThrough => ret.res = RES_OK

C7_Witness ==
    Returned("disk_write") /\ ret.res = RES_OK /\ L.count0 > 1 /\ HintFailed

\* the read command of the call, by its sector count
ReadCommand == IF L.count0 = 1 THEN CMD17 ELSE CMD18

\* C8: read returns RES_OK only if the read command was answered with 0 and
\* count frames of 512 bytes arrived behind a 0xFE token; a frame whose wait
\* ended otherwise is the last frame tried and makes the result RES_ERROR,
\* whatever the response to CMD12.
C8_ReadOkOnlyIfAllReceived ==
    Returned("disk_read") =>
        /\ ret.res = RES_OK =>
             /\ L.pdrv = 0 /\ L.count0 >= 1
             /\ CmdAccepted(ReadCommand)
             /\ Cardinality(FramesReceived) = L.count0
             /\ FramesFailed = {}
        /\ \A i \in Kind("rx") : bus[i].a = 512
        /\ \A f \in FramesFailed :
             /\ ret.res = RES_ERROR
             /\ \A i \in Kind("rx") : i <= f

C8_Witness ==
    /\ Returned("disk_read") /\ L.count0 > 1 /\ ret.res = RES_ERROR
    /\ FramesReceived # {} /\ FramesFailed # {}
    /\ \E i \in Idx("cmd", CMD12) : bus[i + 1] = Ev("r1", 0, 0)

\* C9: in a multiple block read whose CMD18 was accepted, CMD12 is framed
\* exactly once, after the last frame tried (the loop having completed or
\* stopped early), with the card still selected since CMD18, and the
\* deselect follows it.
C9_StopTransmissionOnce ==
    Returned("disk_read") /\ L.count0 > 1 /\ CmdAccepted(CMD18) =>
        /\ Cardinality(Idx("cmd", CMD12)) = 1
        /\ \A st \in Idx("cmd", CMD12) :
             /\ \A i \in Kind("rx") : i < st
             /\ \A c \in Idx("cmd", CMD18) : c < st /\ \A i \in Kind("cs") : ~(c < i /\ i < st)
             /\ \E i \in Idx("cs", 1) : i > st
        /\ bus[Len(bus)] = Ev("cs", 1, 0)
        /\ CS = CS_HIGH

C9_Witness ==
    /\ Returned("disk_read") /\ L.count0 > 1 /\ CmdAccepted(CMD18)
    /\ FramesFailed # {}
    /\ Cardinality(Idx("cmd", CMD12)) = 1

\* C10: wait_ready returns failure only when WAIT_READY_TICKS invocations of
\* the handler have passed since it armed Timer2, the timer then being at
\* zero; and with the handler invoked again and again every call of
\* wait_ready returns.
C10_WaitReadyTimeout ==
    /\ [](pc = "wh_done" /\ rv = 0 => ticks >= WAIT_READY_TICKS /\ Timer2 = 0)
    /\ [][pc = "wr_loop" /\ pc' = "wh_done" /\ ticks < WAIT_READY_TICKS => rv' = 1]_vars
    /\ (pc = "wait_ready" ~> pc = "wh_done")

C10_Witness == pc = "wh_done" /\ rv = 0 /\ ticks = WAIT_READY_TICKS

\* an initialize(0) run that got past its two checks and has returned
InitRan == Returned("disk_initialize") /\ L.pdrv = 0 /\ xchgd

\* the card answered every step of the negotiation as a card of one family
\* does, the poll ending with response 0 while Timer1 was still running
Negotiated ==
    /\ L.neg.cmd0 = 1
    /\ L.neg.cmd8 = 1 => L.neg.r7[3] = 1 /\ L.neg.r7[4] = 170
    /\ L.neg.poll = 0 /\ L.neg.t1 /\ L.neg.fin = 0

\* the family such a card belongs to
Family ==
    IF L.neg.cmd8 = 1
    THEN IF (L.ocr[1] \div 64) % 2 = 1 THEN {CT_SD2, CT_BLOCK} ELSE {CT_SD2}
    ELSE IF L.neg.probe <= 1 THEN {CT_SD1} ELSE {CT_MMC}

\* C11: with the card in the socket, every initialize(0) run the card
\* answers as a compliant card of one family ends with that family as
\* CardType and with STA_NOINIT clear, whatever CardType and Stat were
\* before the call; a repeated call therefore ends as the first did.
C11_InitIdempotent ==
    InitRan /\ Negotiated =>
        CardType = Family /\ STA_NOINIT \notin ret.stat /\ STA_NOINIT \notin Stat

C11_Witness ==
    /\ InitRan /\ Negotiated
    /\ L.ct0 = {CT_SD1} /\ CardType = L.ct0
    /\ STA_NOINIT \notin ret.stat

\* C14: an initialize(0) run ends with a nonzero CardType only if CMD0
\* returned 1, the poll command returned 0 with Timer1 still nonzero and the
\* closing command (CMD58 or CMD16) returned 0; SDv2 only after CMD8
\* returned 1 with the 0x01AA echo, SDv1 only after CMD8 returned another
\* value and ACMD41(0) at most 1, MMCv3 only after ACMD41(0) returned more
\* than 1, CT_BLOCK only with SDv2 and OCR bit 0x40; and STA_NOINIT is
\* cleared only by a run that ended with a nonzero CardType.
C14_TypeOnlyIfNegotiated ==
    /\ [](InitRan =>
            /\ CardType # {} =>
                 L.neg.cmd0 = 1 /\ L.neg.poll = 0 /\ L.neg.t1 /\ L.neg.fin = 0
            /\ CT_SD2 \in CardType =>
                 /\ L.neg.cmd8 = 1 /\ L.neg.r7[3] = 1 /\ L.neg.r7[4] = 170
                 /\ CardType \subseteq {CT_SD2, CT_BLOCK}
            /\ CT_SD1 \in CardType =>
                 /\ L.neg.cmd8 \notin {1, NotSent} /\ L.neg.probe \in {0, 1}
                 /\ CardType = {CT_SD1}
            /\ CT_MMC \in CardType =>
                 /\ L.neg.cmd8 \notin {1, NotSent} /\ L.neg.probe > 1
                 /\ CardType = {CT_MMC}
            /\ CT_BLOCK \in CardType =>
                 CT_SD2 \in CardType /\ (L.ocr[1] \div 64) % 2 = 1)
    /\ [][(STA_NOINIT \in Stat) /\ (STA_NOINIT \notin Stat') =>
            (pc = "di_store" /\ CardType # {} /\ L.ty = CardType)]_vars

C14_Witness == InitRan /\ CardType = {CT_SD2, CT_BLOCK} /\ STA_NOINIT \notin ret.stat

\* a read that returned RES_OK after the write of the same sectors did
ReadBack ==
    Returned("disk_read") /\ L.prev = RES_OK /\ ret.res = RES_OK

\* C12: when write(0, data, s, N) returned RES_OK and the read(0, buf, s, N)
\* that follows returned RES_OK, against a card that keeps what it accepted,
\* region j of buf holds what region j of data held, for every j < N, and the
\* read command carried the address the write command carried, which is the
\* sector number, times 512 in a DWORD for a byte-addressed card.
C12_RoundTrip ==
    ReadBack =>
        /\ \A j \in 0 .. L.count0 - 1 : L.buf[j] = DataAt(j)
        /\ bus[Last(ReadCmds)].a = bus[Last(WriteCmds)].a
        /\ bus[Last(ReadCmds)].a = Address(L.sector, CardType)
        /\ bus[Last(ReadCmds)].v = (IF L.count0 = 1 THEN CMD17 ELSE CMD18)
        /\ bus[Last(WriteCmds)].v = (IF L.count0 = 1 THEN CMD24 ELSE CMD25)

C12_Witness ==
    /\ ReadBack /\ L.count0 > 1 /\ L.sector = 1 /\ CT_BLOCK \notin CardType
    /\ L.buf[1] = DataAt(1)

\* the event before position i of the record is a wait_ready that succeeded
AfterReady(i) == i > 1 /\ bus[i - 1] = Ev("rdy", 1, 0)

\* C13 (as claimed): every command frame and every write payload follows
\* directly on a wait_ready that returned success.
C13_ReadyBeforeFrame_Original ==
    /\ \A i \in Kind("cmd") : AfterReady(i)
    /\ \A t \in DataBlocks : AfterReady(t)

\* C13 (amended): every command frame but that of CMD12, every write
\* payload and the stop token follow directly on a wait_ready that returned
\* success; the CMD12 frame follows directly on the last frame attempt of the
\* receive loop, with no wait_ready; after a wait_ready that timed out the
\* next thing on the bus is the deselect or another wait_ready, and send_cmd
\* returns 0xFF without sending a frame.
C13_ReadyBeforeFrame ==
    /\ [](/\ \A i \in Kind("cmd") :
               IF bus[i].v # CMD12 THEN AfterReady(i)
               ELSE i > 1 /\ bus[i - 1].k = "rx"
          /\ \A t \in Kind("tok") : AfterReady(t)
          /\ \A i \in Idx("rdy", 0) :
               i + 1 \in DOMAIN bus => bus[i + 1].k \in {"cs", "rdy"}
          /\ pc = "sc_frame" /\ L.cmd # CMD12 => rv = 1)
    /\ [][(pc = "sc_selected") /\ (rv = 0) /\ (pc' # pc) => (rv' = 255 /\ pc' # "sc_frame")]_vars

C13_Witness ==
    /\ Returned("disk_read")
    /\ \E c \in Idx("cmd", CMD18) : AfterReady(c)
    /\ \E st \in Idx("cmd", CMD12) : bus[st - 1] = Ev("rx", TOKEN_SINGLE, 512)

\* a public function has been entered and has not returned yet
Running == pc \notin {"idle", "done"}

\* C15: with the handler invoked again and again and the caller never
\* stopped, every call of the public functions returns, whatever the card
\* answers; wait_ready is left with success or with Timer2 at zero, the wait
\* for a data token with a byte other than 0xFF or with Timer1 at zero; and
\* during disk_initialize Timer1 is raised only where it is armed, after
\* CMD0, never by the command sends of the negotiation.
C15_EveryCallReturns ==
    /\ Running ~> (pc = "done")
    /\ [][(pc = "wr_loop") /\ (pc' # pc) => (rv' = 1 \/ Timer2 = 0)]_vars
    /\ [][(pc = "rd_loop") /\ (pc' # pc) /\ Logged =>
            (bus'[Len(bus')].v # 255 \/ Timer1 = 0)]_vars
    /\ [][(op = "disk_initialize") /\ (Timer1' > Timer1) => (pc = "di_cmd0")]_vars

C15_Witness ==
    /\ InitRan /\ L.neg.cmd8 = 1 /\ L.neg.poll = NotSent
    /\ L.neg.r7[3] = 1 /\ L.neg.r7[4] = 170
    /\ Timer1 = 0 /\ CardType = {}

C18_InitializedHasType == STA_NOINIT \notin Stat => CardType # {}

\* an invocation of the handler
TickStep == \E wp \in Levels, cd \in Levels : disk_timerproc(TickBurst, wp, cd)

\* C19 (as claimed): CardType changes only at the end of an initialize run
\* that succeeded, and a run that was rejected or failed leaves the stored
\* CardType as it was.
C19_TypeSetOnSuccessOnly_Original ==
    /\ [][CardType' # CardType => (pc = "di_end" /\ L.ty # {})]_vars
    /\ [](Returned("disk_initialize") /\ (~xchgd \/ L.ty = {}) => CardType = L.ct0)

\* C19 (amended): CardType changes only at the end of an initialize run
\* that got past its two checks, where it takes the detected type, none
\* when the run failed; a rejected run (other drive, no disk) leaves it as it
\* was; the handler changes nothing but the two timers and Stat and
\* exchanges no byte.
C19_TypeSetOnSuccessOnly ==
    /\ [][CardType' # CardType => (pc = "di_end" /\ L.ty = CardType')]_vars
    /\ [](Returned("disk_initialize") =>
            IF xchgd /\ L.pdrv = 0 THEN CardType = L.ty ELSE CardType = L.ct0)
    /\ [][TickStep => UNCHANGED <<CardType, CS, bus, xchgd, csDriven, pc, stack, L, rv>>]_vars

C19_Witness == InitRan /\ L.ct0 = {CT_SD2} /\ L.ty = {} /\ CardType = {}

\* C20 (as claimed): on an initialized drive 0, MMC_GET_SDSTAT selects the
\* card and sends ACMD13 (CMD55, then CMD13) to every SD card, SDv1 and SDv2,
\* once the card is ready, and waits for the 64-byte block when CMD13 is
\* accepted; for an MMC it sends no command and returns RES_ERROR.
C20_SdStatusForSdFamily ==
    Returned("disk_ioctl") /\ L.pdrv = 0 /\ L.ctrl = "MMC_GET_SDSTAT"
        /\ ret.res # RES_NOTRDY =>
        /\ CardType \cap CT_SDC # {} =>
             /\ Idx("cs", 0) # {}
             /\ Idx("rdy", 1) # {} => Idx("cmd", CMD55) # {}
             /\ CmdAccepted(ACMD13 % ACMD_FLAG) => \E i \in Kind("rx") : bus[i].a = 64
        /\ CardType = {CT_MMC} => Kind("cmd") = {} /\ ret.res = RES_ERROR

=============================================================================
